---- MODULE Spec2Model ----
(***************************************************************************)
(* Model of the interactive segmentation engine of the image editor:       *)
(*   - SegmentationService (services/aiService.ts): smartFloodFill,        *)
(*     advancedSmartSegmentation, dilateMask;                              *)
(*   - the run handler of the canvas (components/ImageEditor/Canvas.tsx,   *)
(*     handleStageClick), including the split of the image by the mask;    *)
(*   - the editor store (useEditorStore).                                  *)
(*                                                                         *)
(* Numbers follow the source: an ImageData is a record with width, height  *)
(* and data, data being a zero-based array of 4*width*height samples.      *)
(* Thresholds are held in thousandths (0.15 is 150).                       *)
(***************************************************************************)
EXTENDS Integers, Sequences, FiniteSets, TLC

VARIABLES
    \* ---- pipeline harness (pure functions applied to drawn inputs) ----
    imageData,      \* the source image handed to the pipeline
    growCall,       \* arguments and result of the last smartFloodFill call
    segCall,        \* arguments and result of the last segmentWithSAM2 call
    splitOut,       \* layers produced by the split of imageData by the mask
    \* ---- dilation harness ----
    maskIn,         \* a mask handed to dilateMask
    dilOut,         \* dilOut[k] = dilateMask(maskIn, k-1) for the k computed so far
    applyOut,       \* result of the builder's dilation step on maskIn
    \* ---- editor store (useEditorStore) ----
    currentImage,   \* name of the uploaded image, "null" for none
    layers,         \* sequence of Layer records, in render order
    activeLayerId,
    selectedTool,
    isProcessing,
    processingMessage,
    currentMask,
    apiKeys,        \* which provider keys are stored: [replicate, deepinfra]
    \* ---- canvas component state ----
    image,          \* name of the image element that has loaded, "null" for none
    scale,          \* zoom factor, a fraction <<numerator, denominator>>
    position,       \* stage offset, held in halves: <<2 x, 2 y>>
    samPoints,      \* sequence of [x, y, type]
    lastToast,      \* the toast shown last
    runs,           \* the invocations of the run handler that are suspended at an await
    nextUuid,       \* number of ids crypto.randomUUID has handed out
    \* ---- tasks and store notifications ----
    generations,    \* the invocations of handleAIGenerate suspended at their await
    storeUpdates,   \* the layer lists (id and name of each layer) the store held
                    \* after each set() of layers by the run handler that
                    \* settled last, in order
    poll,           \* the call of pollReplicateResult: where it stands, the
                    \* status requests it has issued, the last status read
    \* ---- buffers of one pipeline run ----
    heap,           \* the ImageData buffers allocated so far; a buffer is
                    \* referred to by its index in heap
    bufRun,         \* the pipeline run over heap: its stage, its arguments
                    \* and the references it holds
    flood           \* one call of smartFloodFill, loop pass by loop pass: its
                    \* queue, visited and regions, and the keys it expanded

harnessVars == <<imageData, growCall, segCall, splitOut, maskIn, dilOut, applyOut>>
storeVars == <<currentImage, layers, activeLayerId, selectedTool, isProcessing,
               processingMessage, currentMask, apiKeys>>
bufferVars == <<heap, bufRun, flood>>
taskVars == <<generations, storeUpdates, poll, bufferVars>>
canvasVars == <<image, scale, position, samPoints, lastToast, runs, nextUuid>>
editorVars == <<storeVars, canvasVars, taskVars>>
vars == <<harnessVars, editorVars>>

----------------------------------------------------------------------------
(* Bounds of the model *)

MaxW == 3           \* widest image drawn
MaxH == 2           \* tallest image drawn
MaxPixels == 4      \* most pixels of an image handed to segmentWithSAM2
MaxPos == 2         \* longest sequence of positive points
MaxNeg == 1         \* longest sequence of negative points
MaskMaxW == 3       \* widest mask handed to dilateMask
MaskMaxH == 3       \* tallest mask handed to dilateMask
MaxIter == 3        \* largest iteration count handed to dilateMask
MaxSamPoints == 2   \* most points collected on the canvas
MaxRuns == 2        \* most invocations of the run handler suspended at once
MaxUuids == 4       \* most ids handed out by crypto.randomUUID
MaxScaleTerm == 6   \* largest numerator or denominator of the zoom factor
MaxGenerations == 2 \* most invocations of handleAIGenerate suspended at once
MaxLayers == 3      \* longest layer list built through the layer actions

----------------------------------------------------------------------------
(* ImageData *)

\* new ImageData(width, height): every sample 0
NewImageData(width, height) ==
    [width |-> width, height |-> height,
     data |-> [i \in 0..(4 * width * height - 1) |-> 0]]

\* typed-array write data[i] = v: an index outside the array is ignored
ArrayWrite(data, i, v) ==
    IF i \in DOMAIN data THEN [data EXCEPT ![i] = v] ELSE data

\* the pixels (r,g,b,a) an input image is drawn from: two opaque reds 30
\* apart in the red channel and transparent black
PixelKinds == { <<255, 0, 0, 255>>, <<225, 0, 0, 255>>, <<0, 0, 0, 0>> }

ImageOf(width, height, f) ==
    [width |-> width, height |-> height,
     data |-> [i \in 0..(4 * width * height - 1) |-> f[i \div 4][(i % 4) + 1]]]

ImageInputs ==
    UNION { { ImageOf(w, h, f) : f \in [0..(w * h - 1) -> PixelKinds] } :
            w \in 1..MaxW, h \in 1..MaxH }

\* the images of at most MaxPixels pixels
SmallImageInputs == { img \in ImageInputs : img.width * img.height <= MaxPixels }

\* two larger images with pixels off the border: a 4x3 image whose left half
\* is the first red and whose right half is the second, and a 3x3 image of
\* the second red with a centre pixel of the first
HalvesImage ==
    ImageOf(4, 3, [p \in 0..11 |-> IF p % 4 < 2 THEN <<255, 0, 0, 255>>
                                                 ELSE <<225, 0, 0, 255>>])
CentreImage ==
    ImageOf(3, 3, [p \in 0..8 |-> IF p = 4 THEN <<255, 0, 0, 255>>
                                           ELSE <<225, 0, 0, 255>>])

SegmentImageInputs == SmallImageInputs \cup {HalvesImage, CentreImage}

PixelsOf(img) == (0..(img.width - 1)) \X (0..(img.height - 1))

\* thresholds handed to the pipeline, in thousandths
Thresholds == {100, 150}
GrowThresholds == {0, 90, 120}
Dilates == {0, 3}

----------------------------------------------------------------------------
(* Region keys: `${x},${y}` and key.split(',').map(Number) *)

DigitChars == <<"0", "1", "2", "3", "4", "5", "6", "7", "8", "9">>

RECURSIVE NatToString(_)
NatToString(n) ==
    IF n < 10 THEN <<DigitChars[n + 1]>>
    ELSE NatToString(n \div 10) \o <<DigitChars[(n % 10) + 1]>>

NumberToString(n) ==
    IF n < 0 THEN <<"-">> \o NatToString(0 - n) ELSE NatToString(n)

RegionKey(x, y) == NumberToString(x) \o <<",">> \o NumberToString(y)

DigitValue(c) == (CHOOSE d \in 1..10 : DigitChars[d] = c) - 1

RECURSIVE ParseNat(_, _)
ParseNat(s, acc) ==
    IF s = <<>> THEN acc ELSE ParseNat(Tail(s), acc * 10 + DigitValue(Head(s)))

ParseNumber(s) ==
    IF s # <<>> /\ Head(s) = "-" THEN 0 - ParseNat(Tail(s), 0) ELSE ParseNat(s, 0)

\* const [x, y] = regionKey.split(',').map(Number)
ParseKey(key) ==
    LET c == CHOOSE i \in 1..Len(key) : key[i] = ","
    IN  <<ParseNumber(SubSeq(key, 1, c - 1)), ParseNumber(SubSeq(key, c + 1, Len(key)))>>

----------------------------------------------------------------------------
(* SegmentationService.smartFloodFill *)

\* (DistanceWithinStrict is the comparison written with < instead of <=.)
\* colorDistance(...) <= threshold, for a threshold in thousandths:
\* sqrt(d2)/255 <= t/1000 iff d2 <= (255 t)^2 / 10^6.  A sample read outside
\* the array is undefined, the distance is NaN and the comparison is false.
DistanceWithinStrict(data, idx, targetIdx, threshold) ==
    /\ idx \in DOMAIN data /\ (idx + 2) \in DOMAIN data
    /\ targetIdx \in DOMAIN data /\ (targetIdx + 2) \in DOMAIN data
    /\ LET dr == data[idx] - data[targetIdx]
           dg == data[idx + 1] - data[targetIdx + 1]
           db == data[idx + 2] - data[targetIdx + 2]
       IN  dr * dr + dg * dg + db * db
               < ((255 * threshold) * (255 * threshold)) \div 1000000

DistanceWithin(data, idx, targetIdx, threshold) ==
    /\ idx \in DOMAIN data /\ (idx + 2) \in DOMAIN data
    /\ targetIdx \in DOMAIN data /\ (targetIdx + 2) \in DOMAIN data
    /\ LET dr == data[idx] - data[targetIdx]
           dg == data[idx + 1] - data[targetIdx + 1]
           db == data[idx + 2] - data[targetIdx + 2]
       IN  dr * dr + dg * dg + db * db
               <= ((255 * threshold) * (255 * threshold)) \div 1000000

\* the test without its x >= width part
OutOfBoundsNoRightEdge(x, y, width, height) ==
    x < 0 \/ y < 0 \/ y >= height

\* x < 0 || x >= width || y < 0 || y >= height
OutOfBounds(x, y, width, height) ==
    x < 0 \/ x >= width \/ y < 0 \/ y >= height

\* the neighbour list with a diagonal step in it
NeighborsWithDiagonal(x, y) ==
    << <<x + 1, y>>, <<x - 1, y>>, <<x, y + 1>>, <<x, y - 1>>, <<x + 1, y + 1>> >>

\* the four neighbours, in the order they are pushed
Neighbors(x, y) == << <<x + 1, y>>, <<x - 1, y>>, <<x, y + 1>>, <<x, y - 1>> >>

\* the while loop over the queue; returns regions
RECURSIVE FloodLoop(_, _, _, _, _, _, _, _)
FloodLoop(data, width, height, targetIdx, threshold, queue, visited, regions) ==
    IF queue = <<>> THEN regions
    ELSE LET x == Head(queue)[1]
             y == Head(queue)[2]
             rest == Tail(queue)
             key == RegionKey(x, y)
         IN  IF key \in visited \/ OutOfBounds(x, y, width, height)
             THEN FloodLoop(data, width, height, targetIdx, threshold,
                            rest, visited, regions)
             ELSE IF DistanceWithin(data, (y * width + x) * 4, targetIdx, threshold)
                  THEN FloodLoop(data, width, height, targetIdx, threshold,
                                 rest \o Neighbors(x, y),
                                 visited \cup {key}, regions \cup {key})
                  ELSE FloodLoop(data, width, height, targetIdx, threshold,
                                 rest, visited \cup {key}, regions)

smartFloodFill(data, width, height, point, threshold) ==
    FloodLoop(data, width, height, (point[2] * width + point[1]) * 4, threshold,
              << <<point[1], point[2]>> >>, {}, {})

\* The error smartFloodFill throws: it has no throw statement and no check of
\* the point it is given, and a read outside the typed array yields undefined
\* without an exception, so it returns for every argument.
smartFloodFillError(data, width, height, point, threshold) == "none"

----------------------------------------------------------------------------
(* SegmentationService.dilateMask *)

\* one pass of the loop body: a fresh ImageData in which the pixels of rows
\* 1..height-2 and columns 1..width-2 with a sample of alpha > 128 in their
\* 3x3 neighbourhood get (255,100,255,180)
HasSelectedFrom128(cur, x, y) ==
    \E dy \in -1..1, dx \in -1..1 :
        cur.data[((y + dy) * cur.width + (x + dx)) * 4 + 3] >= 128

HasSelected(cur, x, y) ==
    \E dy \in -1..1, dx \in -1..1 :
        cur.data[((y + dy) * cur.width + (x + dx)) * 4 + 3] > 128

HighlightSample(c) == <<255, 100, 255, 180>>[c + 1]

DilateOnce(cur) ==
    [width |-> cur.width, height |-> cur.height,
     data |-> [i \in 0..(4 * cur.width * cur.height - 1) |->
         LET p == i \div 4
             x == p % cur.width
             y == p \div cur.width
         IN  IF /\ 1 <= y /\ y < cur.height - 1
                /\ 1 <= x /\ x < cur.width - 1
                /\ HasSelected(cur, x, y)
             THEN HighlightSample(i % 4)
             ELSE 0]]

\* the loop with the test iter <= iterations
RECURSIVE DilateLoopInclusive(_, _, _)
DilateLoopInclusive(current, iter, iterations) ==
    IF iter <= iterations
    THEN DilateLoopInclusive(DilateOnce(current), iter + 1, iterations)
    ELSE current

\* for (let iter = 0; iter < iterations; iter++) { ...; current = newMask }
RECURSIVE DilateLoop(_, _, _)
DilateLoop(current, iter, iterations) ==
    IF iter < iterations
    THEN DilateLoop(DilateOnce(current), iter + 1, iterations)
    ELSE current

\* a dilator whose passes do not feed one another: one pass for any n >= 1
dilateMaskSinglePass(mask, iterations) ==
    DilateLoop([width |-> mask.width, height |-> mask.height, data |-> mask.data],
               0, IF iterations >= 1 THEN 1 ELSE 0)

dilateMask(mask, iterations) ==
    DilateLoop([width |-> mask.width, height |-> mask.height, data |-> mask.data],
               0, iterations)

----------------------------------------------------------------------------
(* SegmentationService.advancedSmartSegmentation / segmentWithSAM2 *)

\* threshold * 0.8 and threshold * 0.6, in thousandths
PositiveThreshold(threshold) == (threshold * 8) \div 10
NegativeThreshold(threshold) == (threshold * 6) \div 10

\* for (const point of positivePoints) ... regions.add(region)
RECURSIVE AddPositiveRegions(_, _, _, _)
AddPositiveRegions(img, points, threshold, regions) ==
    IF points = <<>> THEN regions
    ELSE AddPositiveRegions(img, Tail(points), threshold,
            regions \cup smartFloodFill(img.data, img.width, img.height,
                                        Head(points), PositiveThreshold(threshold)))

\* for (const negPoint of negativePoints) ... regions.delete(region)
RECURSIVE RemoveNegativeRegions(_, _, _, _)
RemoveNegativeRegions(img, points, threshold, regions) ==
    IF points = <<>> THEN regions
    ELSE RemoveNegativeRegions(img, Tail(points), threshold,
            regions \ smartFloodFill(img.data, img.width, img.height,
                                     Head(points), NegativeThreshold(threshold)))

\* the two loops in the other order: removal first, then the additions
BuildRegionsNegativesFirst(img, positivePoints, negativePoints, threshold) ==
    AddPositiveRegions(img, positivePoints, threshold,
        RemoveNegativeRegions(img, negativePoints, threshold, {}))

\* the set of keys rasterized into the mask
BuildRegions(img, positivePoints, negativePoints, threshold) ==
    RemoveNegativeRegions(img, negativePoints, threshold,
        AddPositiveRegions(img, positivePoints, threshold, {}))

\* regions.forEach(...): the four samples of each key's pixel become 255
RasterizeRegions(mask, regions) ==
    LET idxs == { (ParseKey(k)[2] * mask.width + ParseKey(k)[1]) * 4 : k \in regions }
    IN  [mask EXCEPT !.data =
            [i \in DOMAIN mask.data |-> IF (i - (i % 4)) \in idxs THEN 255 ELSE mask.data[i]]]

\* if (dilate > 0) return this.dilateMask(mask, dilate);
\* return dilate > 0 ? this.dilateMask(mask, dilate) : mask;
ApplyDilation(mask, dilate) ==
    IF dilate > 0 THEN dilateMask(mask, dilate) ELSE mask

\* A point is <<x, y>>; an undefined click point is <<>>.  An option that the
\* caller left out is a record with present = FALSE.
NoPoint == <<>>
Absent == [present |-> FALSE, points |-> <<>>]
Given(points) == [present |-> TRUE, points |-> points]

\* positivePoints[0], undefined for an empty array
FirstOrNoPoint(points) == IF points = <<>> THEN NoPoint ELSE points[1]

\* options.positivePoints || [clickPoint]: an array, even an empty one, is
\* truthy, so the click point is used only when the option is absent
EffectivePositives(clickPoint, positivePoints) ==
    IF positivePoints.present THEN positivePoints.points ELSE <<clickPoint>>

\* options.negativePoints || []
EffectiveNegatives(negativePoints) ==
    IF negativePoints.present THEN negativePoints.points ELSE <<>>

\* The function has no throw statement: the only way it rejects is the
\* TypeError of reading clickPoint.x on an undefined click point, which is
\* evaluated only when options.positivePoints is absent.  error is the
\* rejection reason, "none" when the call resolves with a mask.
advancedSmartSegmentation(img, clickPoint, threshold, dilate, positivePoints, negativePoints) ==
    IF ~positivePoints.present /\ clickPoint = NoPoint
    THEN [error |-> "TypeError", regions |-> {},
          mask |-> NewImageData(img.width, img.height)]
    ELSE
    LET regions == BuildRegions(img, EffectivePositives(clickPoint, positivePoints),
                                EffectiveNegatives(negativePoints), threshold)
        mask == RasterizeRegions(NewImageData(img.width, img.height), regions)
    IN  [error |-> "none",
         regions |-> regions,
         mask |-> ApplyDilation(mask, dilate)]

segmentWithSAM2(img, clickPoint, threshold, dilate, positivePoints, negativePoints) ==
    advancedSmartSegmentation(img, clickPoint, threshold, dilate, positivePoints, negativePoints)

----------------------------------------------------------------------------
(* handleStageClick: the split of the image by the mask *)

\* putImageData followed by getImageData on a canvas with premultiplied
\* storage: a pixel of alpha 255 is kept, a pixel of alpha 0 reads back as
\* transparent black
CanvasRoundTrip(data) ==
    [i \in DOMAIN data |-> IF data[(i - (i % 4)) + 3] = 0 THEN 0 ELSE data[i]]

\* for (let i = 0; i < maskData.data.length; i += 4)
\*     if (<test on maskData.data[i]>) layer.data[i * 4 + 3] = 0
RECURSIVE ApplyMaskLoop(_, _, _, _, _)
ApplyMaskLoop(layerData, maskArr, length, i, clearWhenZero) ==
    IF i >= length THEN layerData
    ELSE ApplyMaskLoop(
            IF (maskArr[i] = 0) = clearWhenZero
            THEN ArrayWrite(layerData, i * 4 + 3, 0)
            ELSE layerData,
            maskArr, length, i + 4, clearWhenZero)

\* segmentData: the image with alpha cleared where the mask's red sample is 0
SegmentLayer(img, mask) ==
    [width |-> img.width, height |-> img.height,
     data |-> CanvasRoundTrip(ApplyMaskLoop(img.data, mask.data, 4 * mask.width * mask.height, 0, TRUE))]

\* backgroundData: the image with alpha cleared where the mask's red sample is > 0
BackgroundLayer(img, mask) ==
    [width |-> img.width, height |-> img.height,
     data |-> CanvasRoundTrip(ApplyMaskLoop(img.data, mask.data, 4 * mask.width * mask.height, 0, FALSE))]

----------------------------------------------------------------------------
(* Pipeline harness: the pure stages applied to drawn inputs *)

PointSeqs(img, n) ==
    UNION { [1..k -> PixelsOf(img)] : k \in 0..n }

NoGrowCall == [called |-> FALSE, seed |-> NoPoint, threshold |-> 0, regions |-> {},
               error |-> "none"]

\* the coordinates one step outside the image, around it
SeedsOutside(img) == ((-1..img.width) \X (-1..img.height)) \ PixelsOf(img)
NoSegCall ==
    [called |-> FALSE, clickPoint |-> NoPoint, positivePoints |-> Absent,
     negativePoints |-> Absent, threshold |-> 0, dilate |-> 0,
     result |-> [error |-> "none", regions |-> {}, mask |-> NewImageData(0, 0)]]
NoSplit == [done |-> FALSE, segmentData |-> NewImageData(0, 0),
            backgroundData |-> NewImageData(0, 0)]
NoMask == NewImageData(0, 0)
NoApply == [called |-> FALSE, dilate |-> 0, mask |-> NoMask]

----------------------------------------------------------------------------
(* Editor store: useEditorStore *)

NullName == "null"
NullId == <<"null", 0>>
BackgroundId == <<"background", 0>>
Uuid(n) == <<"uuid", n>>
NoImageData == NewImageData(0, 0)
NoThumbnail == "undefined"

\* `Layer ${n}`
DefaultLayerName(n) == <<"Layer", n>>

\* the initial layer of setCurrentImage
InitialLayer ==
    [id |-> BackgroundId, name |-> <<"Background", 0>>, visible |-> TRUE,
     locked |-> FALSE, opacity |-> 100, blendMode |-> "normal",
     thumbnail |-> NoThumbnail, imageData |-> NoImageData]

\* the layer addLayer appends: defaults overridden by the fields given
NewLayer(id, name, thumbnail, imgData) ==
    [id |-> id, name |-> name, visible |-> TRUE, locked |-> FALSE,
     opacity |-> 100, blendMode |-> "normal",
     thumbnail |-> thumbnail, imageData |-> imgData]

\* layers.filter(l => l.id !== layerId)
RECURSIVE FilterOutId(_, _)
FilterOutId(ls, layerId) ==
    IF ls = <<>> THEN <<>>
    ELSE IF Head(ls).id # layerId
         THEN <<Head(ls)>> \o FilterOutId(Tail(ls), layerId)
         ELSE FilterOutId(Tail(ls), layerId)

\* removeLayer that picks the last remaining layer for the active one
RemoveLayerResultLast(ls, active, layerId) ==
    LET newLayers == FilterOutId(ls, layerId)
    IN  << newLayers,
           IF active = layerId
           THEN (IF newLayers = <<>> THEN NullId ELSE newLayers[Len(newLayers)].id)
           ELSE active >>

\* removeLayer(layerId): the pair <<layers, activeLayerId>> it sets
RemoveLayerResult(ls, active, layerId) ==
    LET newLayers == FilterOutId(ls, layerId)
    IN  << newLayers,
           IF active = layerId
           THEN (IF newLayers = <<>> THEN NullId ELSE newLayers[1].id)
           ELSE active >>

\* addLayer putting the new layer first in the list
AddLayerResultFront(ls, newLayer) == << <<newLayer>> \o ls, newLayer.id >>

\* addLayer(layerData): the pair <<layers, activeLayerId>> it sets
AddLayerResult(ls, newLayer) == << Append(ls, newLayer), newLayer.id >>

----------------------------------------------------------------------------
(* Canvas component *)

\* the images a user can upload, by name; they fit the stage
EditorImageNames == {"pair", "column"}

\* "pair" is 2x1, two opaque reds; "column" is 1x2, a red over transparent black
ImageNamed(name) ==
    IF name = "pair"
    THEN ImageOf(2, 1, [p \in 0..1 |-> IF p = 0 THEN <<225, 0, 0, 255>>
                                               ELSE <<255, 0, 0, 255>>])
    ELSE ImageOf(1, 2, [p \in 0..1 |-> IF p = 0 THEN <<255, 0, 0, 255>>
                                               ELSE <<0, 0, 0, 0>>])

\* stageSize, set from the container by handleResize
StageSize == [width |-> 4, height |-> 3]

\* pointer positions of a click on the stage
PointerPositions == (0..StageSize.width) \X (0..StageSize.height)

\* positions a drag of the stage ends at
DragTargets == { <<1, 1>> }

\* the tool ids of ToolPanel and of SegmentationPanel
ToolPanelIds == {"select", "sam2-segment", "magic-cut", "inpaint", "erase", "enhance"}
SegmentationPanelIds == {"sam2-segment", "magic-cut", "smart-erase", "refine-mask"}

\* the ids drawn when a tool is picked: the one with which a click adds a
\* point, and the one with which the stage is dragged and a click does
\* nothing, as with every other id listed
PickedToolIds == {"select", "sam2-segment"}

RECURSIVE GCD(_, _)
GCD(a, b) == IF b = 0 THEN a ELSE GCD(b, a % b)

\* fractions <<n, d>> with d > 0, in lowest terms
Frac(n, d) == << n \div GCD(n, d), d \div GCD(n, d) >>
FracLess(f, g) == f[1] * g[2] < g[1] * f[2]
FracMin(f, g) == IF FracLess(g, f) THEN g ELSE f
FracMax(f, g) == IF FracLess(f, g) THEN g ELSE f

\* Math.round(a / b) for b > 0: the nearest integer, halves upward
RoundDiv(a, b) == (2 * a + b) \div (2 * b)

\* Math.min(scaleX, scaleY, 1)
AutoScale(img) ==
    FracMin(FracMin(Frac(StageSize.width, img.width),
                    Frac(StageSize.height, img.height)), <<1, 1>>)

\* (stageSize - img size * autoScale) / 2, in halves
AutoPosition(img) ==
    LET a == AutoScale(img)
    IN  << (StageSize.width * a[2] - img.width * a[1]) \div a[2],
           (StageSize.height * a[2] - img.height * a[1]) \div a[2] >>

\* Math.max(0, Math.min(v, limit - 1))
Clamp(v, limit) ==
    LET low == IF v < limit - 1 THEN v ELSE limit - 1
    IN  IF low > 0 THEN low ELSE 0

\* adjustedPos of handleStageClick: Math.round((pos - position) / scale),
\* clamped to the image
AdjustedPos(pos, img) ==
    << Clamp(RoundDiv((2 * pos[1] - position[1]) * scale[2], 2 * scale[1]), img.width),
       Clamp(RoundDiv((2 * pos[2] - position[2]) * scale[2], 2 * scale[1]), img.height) >>

\* lastToast holds the kind and the text of the toast shown last: toast.info,
\* toast.error or toast.success
NoToast == <<"none", "">>
Toast(kind, text) == <<kind, text>>

\* samPoints.filter(p => p.type === type), as a sequence of points <<x, y>>
RECURSIVE PointsOfType(_, _)
PointsOfType(points, type) ==
    IF points = <<>> THEN <<>>
    ELSE IF Head(points).type = type
         THEN << <<Head(points).x, Head(points).y>> >> \o PointsOfType(Tail(points), type)
         ELSE PointsOfType(Tail(points), type)

\* the sequence without its i-th element
RemoveAt(seq, i) == SubSeq(seq, 1, i - 1) \o SubSeq(seq, i + 1, Len(seq))

\* the model ids of the AI panel's model list, as their characters
PanelModelIds ==
    { <<"s", "d", "x", "l", "-", "1", ".", "0">>,
      <<"f", "l", "u", "x", "-", "d", "e", "v">>,
      <<"k", "a", "n", "d", "i", "n", "s", "k", "y", "-", "3">>,
      <<"s", "d", "x", "l", "-", "t", "u", "r", "b", "o">> }

\* the models picked in the panel when a generation is started: one listed
\* under each provider
PickedModelIds ==
    { <<"s", "d", "x", "l", "-", "1", ".", "0">>,
      <<"k", "a", "n", "d", "i", "n", "s", "k", "y", "-", "3">> }

\* str.includes(part)
Includes(str, part) ==
    \E k \in 0..(Len(str) - Len(part)) : SubSeq(str, k + 1, k + Len(part)) = part

\* the provider the panel's model list names for a model id
PanelProvider(model) ==
    IF model \in { <<"s", "d", "x", "l", "-", "1", ".", "0">>,
                   <<"f", "l", "u", "x", "-", "d", "e", "v">> }
    THEN "Replicate"
    ELSE "DeepInfra"

\* a way the promise of generateImage settles: resolved with an image url or
\* rejected with an error, the provider the request went to ("none" when no
\* request was sent) and the message of the error
Settled(kind, provider, message) ==
    [kind |-> kind, provider |-> provider, message |-> message]

\* generateWithReplicate / generateWithDeepInfra: without the key of the
\* provider an error is thrown before any request; a request that is sent
\* resolves with an image or fails
generateWith(provider, hasKey) ==
    IF hasKey
    THEN { Settled("image", provider, ""), Settled("error", provider, "request failed") }
    ELSE { Settled("error", "none", "API key not found") }

\* AIService.generateImage(prompt, '', settings): the ways the promise can
\* settle.  The provider is picked by model.includes('replicate') and
\* model.includes('deepinfra'); any other model id throws.
generateImage(model, keys) ==
    IF Includes(model, <<"r", "e", "p", "l", "i", "c", "a", "t", "e">>)
    THEN generateWith("Replicate", keys.replicate)
    ELSE IF Includes(model, <<"d", "e", "e", "p", "i", "n", "f", "r", "a">>)
    THEN generateWith("DeepInfra", keys.deepinfra)
    ELSE { Settled("error", "none", "Unsupported model provider") }

\* apiKeys: {}
NoKeys == [replicate |-> FALSE, deepinfra |-> FALSE]

\* the keys filled in when the key dialog is saved
KeyInputs == { [replicate |-> TRUE, deepinfra |-> FALSE] }

\* !apiKeys.replicate && !apiKeys.deepinfra
NoKeyStored == ~apiKeys.replicate /\ ~apiKeys.deepinfra

\* no pipeline run over the heap yet; reference 0 is no buffer
NoBufRun ==
    [pc |-> "idle", point |-> NoPoint, dilate |-> 0, regions |-> {},
     imageData |-> 0, mask |-> 0, maskData |-> 0, segmentData |-> 0, backgroundData |-> 0]

\* no call of smartFloodFill yet
NoFlood ==
    [pc |-> "idle", img |-> NewImageData(0, 0), point |-> NoPoint, threshold |-> 0,
     queue |-> <<>>, visited |-> {}, regions |-> {}, compared |-> <<>>, pushed |-> <<>>]

\* pollReplicateResult: const maxAttempts = 60
maxAttempts == 60

\* no call of pollReplicateResult yet
NoPoll == [pc |-> "idle", attempt |-> 0, requests |-> 0, status |-> "none"]

InitEditor ==
    /\ currentImage = NullName
    /\ layers = <<>>
    /\ activeLayerId = NullId
    /\ selectedTool = "select"
    /\ isProcessing = FALSE
    /\ processingMessage = ""
    /\ currentMask = NoImageData
    /\ image = NullName
    /\ scale = <<1, 1>>
    /\ position = <<0, 0>>
    /\ samPoints = <<>>
    /\ lastToast = NoToast
    /\ runs = <<>>
    /\ nextUuid = 0
    /\ apiKeys = NoKeys
    /\ generations = <<>>
    /\ storeUpdates = <<>>
    /\ poll = NoPoll
    /\ heap = <<>>
    /\ bufRun = NoBufRun
    /\ flood = NoFlood

\* handleImageUpload -> reader.onload -> setCurrentImage(image)
HandleImageUpload ==
    \E name \in EditorImageNames :
        /\ currentImage' = name
        /\ layers' = <<InitialLayer>>
        /\ activeLayerId' = BackgroundId
        /\ lastToast' = Toast("success", "Image loaded successfully")
        /\ UNCHANGED <<selectedTool, isProcessing, processingMessage, currentMask,
                       image, scale, position, samPoints, runs, nextUuid, apiKeys, taskVars, harnessVars>>

\* img.onload of the effect on currentImage: setImage, auto-fit
ImageOnLoad ==
    /\ currentImage # NullName
    /\ image # currentImage
    /\ image' = currentImage
    /\ scale' = AutoScale(ImageNamed(currentImage))
    /\ position' = AutoPosition(ImageNamed(currentImage))
    /\ UNCHANGED <<storeVars, samPoints, lastToast, runs, nextUuid, taskVars, harnessVars>>

\* handleToolSelect(toolId) from a tool panel; the API-key toast of lines
\* 54-58 is shown for the three AI tools while no key is stored
HandleToolSelect ==
    \E toolId \in (ToolPanelIds \cup SegmentationPanelIds) \cap PickedToolIds :
        /\ selectedTool' = toolId
        /\ lastToast' = IF toolId \in {"sam2-segment", "inpaint", "enhance"} /\ NoKeyStored
                        THEN Toast("info", "API keys required for AI features")
                        ELSE lastToast
        /\ UNCHANGED <<currentImage, layers, activeLayerId, isProcessing,
                       processingMessage, currentMask,
                       image, scale, position, samPoints, runs, nextUuid, apiKeys, taskVars, harnessVars>>

\* setSelectedTool('sam2-run'): the store action with the one tool id the
\* click handler knows and no panel lists
SetSelectedToolRun ==
    /\ selectedTool' = "sam2-run"
    /\ UNCHANGED <<currentImage, layers, activeLayerId, isProcessing,
                   processingMessage, currentMask, canvasVars, apiKeys, taskVars, harnessVars>>

\* the canvas without its processing overlay
CanvasReachableAlways == TRUE

\* The processing overlay (absolute inset-0, z-20) lies over the stage and
\* the canvas controls while isProcessing is true: no click reaches them.
CanvasReachable == ~isProcessing

\* handleStageClick with the tool sam2-segment: one point is appended
StageClickAddPoint ==
    \E pos \in PointerPositions, shiftKey \in BOOLEAN :
        /\ CanvasReachable
        /\ image # NullName
        /\ selectedTool = "sam2-segment"
        /\ Len(samPoints) < MaxSamPoints
        /\ LET adjustedPos == AdjustedPos(pos, ImageNamed(image))
               pointType == IF shiftKey THEN "negative" ELSE "positive"
           IN  /\ samPoints' = Append(samPoints,
                     [x |-> adjustedPos[1], y |-> adjustedPos[2], type |-> pointType])
               /\ lastToast' = Toast("info", IF shiftKey THEN "Added negative point"
                                                    ELSE "Added positive point")
        /\ UNCHANGED <<storeVars, image, scale, position, runs, nextUuid, taskVars, harnessVars>>

\* handleStageClick with the tool sam2-run and no point: the error toast
StageClickRunNoPoints ==
    /\ CanvasReachable
    /\ image # NullName
    /\ selectedTool = "sam2-run"
    /\ samPoints = <<>>
    /\ lastToast' = Toast("error", "Please add some points first")
    /\ UNCHANGED <<storeVars, image, scale, position, samPoints, runs, nextUuid,
                   taskVars, harnessVars>>

\* a click on the stage with this tool selected gets to the run: the stage
\* is reachable, an image has loaded, the tool is the one of the handler's
\* run branch (selectedTool === 'sam2-run') and there are points
RunStarts(tool) ==
    /\ CanvasReachable
    /\ image # NullName
    /\ tool = "sam2-run"
    /\ samPoints # <<>>

\* handleStageClick with the tool sam2-run and points: setProcessing(true),
\* the image data is read, and the handler suspends at await import(...)
StageClickRun ==
    /\ RunStarts(selectedTool)
    /\ Len(runs) < MaxRuns
    /\ nextUuid + 2 * (Len(runs) + 1) <= MaxUuids
    /\ isProcessing' = TRUE
    /\ processingMessage' = "Segmenting with SAM2..."
    /\ lastToast' = Toast("info", "Running SAM2 segmentation...")
    /\ runs' = Append(runs, [pc |-> "import", image |-> image, samPoints |-> samPoints,
                             layers |-> layers, maskData |-> NoImageData])
    /\ UNCHANGED <<currentImage, layers, activeLayerId, selectedTool, currentMask,
                   image, scale, position, samPoints, nextUuid, apiKeys, taskVars, harnessVars>>

\* the import resolves: the points are filtered and segmentWithSAM2 is
\* called with threshold 0.15 and dilate 3; the handler suspends at its await
RunImported ==
    \E i \in DOMAIN runs :
        /\ runs[i].pc = "import"
        /\ LET positivePoints == PointsOfType(runs[i].samPoints, "positive")
               negativePoints == PointsOfType(runs[i].samPoints, "negative")
               result == segmentWithSAM2(ImageNamed(runs[i].image),
                             FirstOrNoPoint(positivePoints), 150, 3,
                             Given(positivePoints), Given(negativePoints))
           IN  runs' = [runs EXCEPT ![i] =
                          [@ EXCEPT !.pc = IF result.error = "none" THEN "segmented"
                                           ELSE "rejected",
                                    !.maskData = result.mask]]
        /\ UNCHANGED <<storeVars, image, scale, position, samPoints, lastToast,
                       nextUuid, taskVars, harnessVars>>

\* the layer lists the store passes through in the three updates at the end
\* of a run whose closure holds closureLayers: removeLayer('background') when
\* the closure has a layer of that id, addLayer of the background layer,
\* addLayer of the object layer.  Each entry is <<layers, activeLayerId>>.
RunLayerUpdates(closureLayers, img, maskData) ==
    LET hasBg == \E k \in DOMAIN closureLayers : closureLayers[k].id = BackgroundId
        removed == IF hasBg THEN RemoveLayerResult(layers, activeLayerId, BackgroundId)
                   ELSE <<layers, activeLayerId>>
        withBg == AddLayerResult(removed[1],
                     NewLayer(Uuid(nextUuid + 1), <<"Background (Unselected)", 0>>,
                              "backgroundCanvas", BackgroundLayer(img, maskData)))
        withObj == AddLayerResult(withBg[1],
                     NewLayer(Uuid(nextUuid + 2), <<"Selected Object", 0>>,
                              "segmentCanvas", SegmentLayer(img, maskData)))
    IN  (IF hasBg THEN <<removed>> ELSE <<>>) \o <<withBg, withObj>>

\* id and name of the layers of each list of a sequence of updates
Firsts(pairs) ==
    [k \in DOMAIN pairs |->
        [j \in DOMAIN pairs[k][1] |-> [id |-> pairs[k][1][j].id,
                                        name |-> pairs[k][1][j].name]]]

\* the await of run i resolves: setMask, the split, the background layer
\* replaced by the two new layers, the points cleared, and
\* setProcessing(false) of finally
RunResolvedAt(i) ==
    /\ runs[i].pc = "segmented"
    /\ LET updates == RunLayerUpdates(runs[i].layers, ImageNamed(runs[i].image),
                                      runs[i].maskData)
       IN  /\ currentMask' = runs[i].maskData
           /\ layers' = updates[Len(updates)][1]
           /\ activeLayerId' = updates[Len(updates)][2]
           /\ storeUpdates' = Firsts(updates)
    /\ nextUuid' = nextUuid + 2
    /\ samPoints' = <<>>
    /\ lastToast' = Toast("success", "Object segmented and separated into layers!")
    /\ isProcessing' = FALSE
    /\ processingMessage' = ""
    /\ runs' = RemoveAt(runs, i)
    /\ UNCHANGED <<currentImage, selectedTool, image, scale, position, apiKeys,
                   generations, poll, bufferVars, harnessVars>>

RunResolved == \E i \in DOMAIN runs : RunResolvedAt(i)

\* the failure path clearing the points as the success path does
RunFailedClearingPoints(i) ==
    /\ runs[i].pc \in {"import", "rejected"}
    /\ lastToast' = Toast("error", "Segmentation failed. Please try again.")
    /\ isProcessing' = FALSE
    /\ processingMessage' = ""
    /\ samPoints' = <<>>
    /\ runs' = RemoveAt(runs, i)
    /\ UNCHANGED <<currentImage, layers, activeLayerId, selectedTool, currentMask,
                   image, scale, position, nextUuid, apiKeys, taskVars,
                   harnessVars>>

\* the import of run i or its segmentation call rejects: catch and finally
RunFailedAt(i) ==
    /\ runs[i].pc \in {"import", "rejected"}
    /\ lastToast' = Toast("error", "Segmentation failed. Please try again.")
    /\ isProcessing' = FALSE
    /\ processingMessage' = ""
    /\ runs' = RemoveAt(runs, i)
    /\ UNCHANGED <<currentImage, layers, activeLayerId, selectedTool, currentMask,
                   image, scale, position, samPoints, nextUuid, apiKeys, taskVars,
                   harnessVars>>

RunFailed == \E i \in DOMAIN runs : RunFailedAt(i)

\* the steps after the segmentation at which the handler can throw: the split
\* (getContext returns null when no canvas context can be had) and the first
\* addLayer (crypto.randomUUID is undefined outside a secure context)
LateFailureSteps == {"split", "addLayer"}

\* run i throws after its segmentation resolved: setMask is done, and at
\* "addLayer" removeLayer('background') is done too; catch and finally
RunFailedLateAt(i, step) ==
    /\ runs[i].pc = "segmented"
    /\ currentMask' = runs[i].maskData
    /\ LET updates == RunLayerUpdates(runs[i].layers, ImageNamed(runs[i].image),
                                      runs[i].maskData)
           done == IF step = "addLayer" /\ Len(updates) = 3 THEN <<updates[1]>> ELSE <<>>
       IN  /\ layers' = IF done = <<>> THEN layers ELSE done[1][1]
           /\ activeLayerId' = IF done = <<>> THEN activeLayerId ELSE done[1][2]
           /\ storeUpdates' = Firsts(done)
    /\ lastToast' = Toast("error", "Segmentation failed. Please try again.")
    /\ isProcessing' = FALSE
    /\ processingMessage' = ""
    /\ runs' = RemoveAt(runs, i)
    /\ UNCHANGED <<currentImage, selectedTool, image, scale, position, samPoints,
                   nextUuid, apiKeys, generations, poll, bufferVars, harnessVars>>

RunFailedLate ==
    \E i \in DOMAIN runs, step \in LateFailureSteps : RunFailedLateAt(i, step)

\* onSave of the API key dialog: setAPIKeys with the keys that were filled in,
\* merged over the stored ones
SaveAPIKeys ==
    \E keys \in KeyInputs :
        /\ apiKeys' = [replicate |-> apiKeys.replicate \/ keys.replicate,
                       deepinfra |-> apiKeys.deepinfra \/ keys.deepinfra]
        /\ apiKeys' # apiKeys
        /\ lastToast' = Toast("success", "API keys saved successfully!")
        /\ UNCHANGED <<currentImage, layers, activeLayerId, selectedTool, isProcessing,
                       processingMessage, currentMask,
                       image, scale, position, samPoints, runs, nextUuid,
                       taskVars, harnessVars>>

\* a Generate button that is never disabled
GenerateReachableAlways == TRUE

\* The Generate button of the AI panel is disabled while isProcessing is true.
GenerateReachable == ~isProcessing

\* handleAIGenerate(prompt, settings) up to its await: without a stored key
\* it opens the key dialog and returns; otherwise setProcessing(true) and the
\* call of generateImage with the keys of this render
HandleAIGenerate ==
    \E model \in PanelModelIds \cap PickedModelIds :
        /\ GenerateReachable
        /\ ~NoKeyStored
        /\ Len(generations) < MaxGenerations
        /\ isProcessing' = TRUE
        /\ processingMessage' = "Generating with AI..."
        /\ generations' = Append(generations, [model |-> model, apiKeys |-> apiKeys])
        /\ UNCHANGED <<currentImage, layers, activeLayerId, selectedTool, currentMask,
                       apiKeys, canvasVars, storeUpdates, poll, bufferVars, harnessVars>>

\* the await of handleAIGenerate settles: addLayer and the success toast, or
\* the error toast of catch; setProcessing(false) of finally either way
GenerateSettled ==
    \E i \in DOMAIN generations :
        \E outcome \in generateImage(generations[i].model, generations[i].apiKeys) :
            /\ IF outcome.kind = "image"
               THEN /\ nextUuid < MaxUuids
                    /\ LET added == AddLayerResult(layers,
                                       NewLayer(Uuid(nextUuid + 1), <<"AI Generated", 0>>,
                                                "result", NoImageData))
                       IN  /\ layers' = added[1]
                           /\ activeLayerId' = added[2]
                    /\ nextUuid' = nextUuid + 1
                    /\ lastToast' = Toast("success", "AI generation completed!")
               ELSE /\ lastToast' = Toast("error", "AI generation failed")
                    /\ UNCHANGED <<layers, activeLayerId, nextUuid>>
            /\ isProcessing' = FALSE
            /\ processingMessage' = ""
            /\ generations' = RemoveAt(generations, i)
            /\ UNCHANGED <<currentImage, selectedTool, currentMask, apiKeys,
                           image, scale, position, samPoints, runs,
                           storeUpdates, poll, bufferVars, harnessVars>>

\* clearSamPoints, offered while there are points
ClearSamPoints ==
    /\ CanvasReachable
    /\ samPoints # <<>>
    /\ samPoints' = <<>>
    /\ lastToast' = Toast("info", "Cleared all SAM2 points")
    /\ UNCHANGED <<storeVars, image, scale, position, runs, nextUuid, taskVars, harnessVars>>

\* handleZoomIn: Math.min(prev * 1.2, 5)
HandleZoomIn ==
    /\ CanvasReachable
    /\ LET next == FracMin(Frac(scale[1] * 6, scale[2] * 5), <<5, 1>>)
       IN  /\ next[1] <= MaxScaleTerm /\ next[2] <= MaxScaleTerm
           /\ scale' = next
    /\ UNCHANGED <<storeVars, image, position, samPoints, lastToast, runs, nextUuid,
                   taskVars, harnessVars>>

\* handleZoomOut: Math.max(prev / 1.2, 0.1)
HandleZoomOut ==
    /\ CanvasReachable
    /\ LET next == FracMax(Frac(scale[1] * 5, scale[2] * 6), <<1, 10>>)
       IN  /\ next[1] <= MaxScaleTerm /\ next[2] <= MaxScaleTerm
           /\ scale' = next
    /\ UNCHANGED <<storeVars, image, position, samPoints, lastToast, runs, nextUuid,
                   taskVars, harnessVars>>

\* handleReset
HandleReset ==
    /\ CanvasReachable
    /\ scale' = <<1, 1>>
    /\ position' = <<0, 0>>
    /\ UNCHANGED <<storeVars, image, samPoints, lastToast, runs, nextUuid, taskVars, harnessVars>>

\* onDragEnd of the stage, draggable with the tool select
StageDragEnd ==
    \E target \in DragTargets :
        /\ CanvasReachable
        /\ selectedTool = "select"
        /\ position' = <<2 * target[1], 2 * target[2]>>
        /\ UNCHANGED <<storeVars, image, scale, samPoints, lastToast, runs, nextUuid,
                       taskVars, harnessVars>>

InitGrow ==
    /\ imageData \in ImageInputs
    /\ growCall = NoGrowCall
    /\ segCall = NoSegCall
    /\ splitOut = NoSplit
    /\ maskIn = NoMask
    /\ dilOut = <<>>
    /\ applyOut = NoApply
    /\ InitEditor

InitSegment ==
    /\ imageData \in SegmentImageInputs
    /\ growCall = NoGrowCall
    /\ segCall = NoSegCall
    /\ splitOut = NoSplit
    /\ maskIn = NoMask
    /\ dilOut = <<>>
    /\ applyOut = NoApply
    /\ InitEditor

\* grow(image, seed, threshold)
Grow ==
    \E seed \in PixelsOf(imageData), t \in GrowThresholds :
        /\ ~growCall.called
        /\ growCall' = [called |-> TRUE, seed |-> seed, threshold |-> t,
                        regions |-> smartFloodFill(imageData.data, imageData.width,
                                                   imageData.height, seed, t),
                        error |-> smartFloodFillError(imageData.data, imageData.width,
                                                      imageData.height, seed, t)]
        /\ UNCHANGED <<imageData, segCall, splitOut, maskIn, dilOut, applyOut, editorVars>>

\* grow called with a seed that lies outside the image
GrowOutside ==
    \E seed \in SeedsOutside(imageData), t \in GrowThresholds :
        /\ ~growCall.called
        /\ growCall' = [called |-> TRUE, seed |-> seed, threshold |-> t,
                        regions |-> smartFloodFill(imageData.data, imageData.width,
                                                   imageData.height, seed, t),
                        error |-> smartFloodFillError(imageData.data, imageData.width,
                                                      imageData.height, seed, t)]
        /\ UNCHANGED <<imageData, segCall, splitOut, maskIn, dilOut, applyOut, editorVars>>

\* segmentWithSAM2 called with a positive point outside the image, alone or
\* after one inside it
SegmentOutside ==
    \E inside \in PointSeqs(imageData, 1), outside \in SeedsOutside(imageData),
       t \in Thresholds, d \in Dilates :
        /\ ~segCall.called
        /\ LET pos == Append(inside, outside)
           IN  segCall' = [called |-> TRUE, clickPoint |-> pos[1],
                           positivePoints |-> Given(pos), negativePoints |-> Given(<<>>),
                           threshold |-> t, dilate |-> d,
                           result |-> segmentWithSAM2(imageData, pos[1], t, d,
                                                      Given(pos), Given(<<>>))]
        /\ splitOut' = NoSplit
        /\ UNCHANGED <<imageData, growCall, maskIn, dilOut, applyOut, editorVars>>

\* The call of the run handler: segmentWithSAM2(imageData, positivePoints[0],
\* {threshold, dilate, positivePoints, negativePoints})
Segment ==
    \E pos \in PointSeqs(imageData, MaxPos), neg \in PointSeqs(imageData, MaxNeg),
       t \in Thresholds, d \in Dilates :
        /\ ~segCall.called
        /\ segCall' = [called |-> TRUE, clickPoint |-> FirstOrNoPoint(pos),
                       positivePoints |-> Given(pos), negativePoints |-> Given(neg),
                       threshold |-> t, dilate |-> d,
                       result |-> segmentWithSAM2(imageData, FirstOrNoPoint(pos), t, d,
                                                  Given(pos), Given(neg))]
        /\ splitOut' = NoSplit
        /\ UNCHANGED <<imageData, growCall, maskIn, dilOut, applyOut, editorVars>>

\* The call of segmentMultipleObjects: segmentWithSAM2(imageData, point) with
\* no options, so the defaults threshold 0.15 and dilate 3 apply
SegmentDefault ==
    \E point \in PixelsOf(imageData) :
        /\ ~segCall.called
        /\ segCall' = [called |-> TRUE, clickPoint |-> point,
                       positivePoints |-> Absent, negativePoints |-> Absent,
                       threshold |-> 150, dilate |-> 3,
                       result |-> segmentWithSAM2(imageData, point, 150, 3, Absent, Absent)]
        /\ splitOut' = NoSplit
        /\ UNCHANGED <<imageData, growCall, maskIn, dilOut, applyOut, editorVars>>

\* the split of the handler, applied to the mask the call resolved with
Split ==
    /\ segCall.called
    /\ segCall.result.error = "none"
    /\ ~splitOut.done
    /\ splitOut' = [done |-> TRUE,
                    segmentData |-> SegmentLayer(imageData, segCall.result.mask),
                    backgroundData |-> BackgroundLayer(imageData, segCall.result.mask)]
    /\ UNCHANGED <<imageData, growCall, segCall, maskIn, dilOut, applyOut, editorVars>>

NextGrow == Grow \/ GrowOutside

SpecGrow == InitGrow /\ [][NextGrow]_vars

NextSegment == Segment \/ SegmentDefault \/ SegmentOutside \/ Split

SpecSegment == InitSegment /\ [][NextSegment]_vars

----------------------------------------------------------------------------
(* Dilation harness: dilateMask applied to drawn masks *)

\* A drawn mask has two kinds of pixel, <<unselected, selected>>:
\*   the builder's raster (lines 323-330), the dilator's own output
\*   (lines 436-439), the raster of processSAMResult (lines 401-404), and a
\*   pair of alphas on either side of the dilator's test alpha > 128
MaskStyles ==
    { << <<0, 0, 0, 0>>, <<255, 255, 255, 255>> >>,
      << <<0, 0, 0, 0>>, <<255, 100, 255, 180>> >>,
      << <<255, 100, 255, 0>>, <<255, 100, 255, 255>> >>,
      << <<255, 255, 255, 128>>, <<255, 255, 255, 129>> >> }

MaskOf(width, height, style, selected) ==
    [width |-> width, height |-> height,
     data |-> [i \in 0..(4 * width * height - 1) |->
                 style[IF (i \div 4) \in selected THEN 2 ELSE 1][(i % 4) + 1]]]

\* masks of 5x3, which have three interior pixels in a row, in the builder's
\* raster, with at most two pixels selected
WideMaskInputs ==
    { MaskOf(5, 3, << <<0, 0, 0, 0>>, <<255, 255, 255, 255>> >>, sel) :
        sel \in { t \in SUBSET (0..14) : Cardinality(t) <= 2 } }

MaskInputs ==
    UNION { { MaskOf(w, h, st, sel) : st \in MaskStyles, sel \in SUBSET (0..(w * h - 1)) } :
            w \in 1..MaskMaxW, h \in 1..MaskMaxH }
      \cup WideMaskInputs

InitDilate ==
    /\ imageData = NewImageData(0, 0)
    /\ growCall = NoGrowCall
    /\ segCall = NoSegCall
    /\ splitOut = NoSplit
    /\ maskIn \in MaskInputs
    /\ dilOut = <<>>
    /\ applyOut = NoApply
    /\ InitEditor

\* dilateMask(maskIn, n) for n = 0, 1, 2, ... in turn
Dilate ==
    /\ Len(dilOut) <= MaxIter
    /\ dilOut' = Append(dilOut, dilateMask(maskIn, Len(dilOut)))
    /\ UNCHANGED <<imageData, growCall, segCall, splitOut, maskIn, applyOut, editorVars>>

\* the last step of the builder, on maskIn
BuilderDilation ==
    \E d \in 0..MaxIter :
        /\ ~applyOut.called
        /\ applyOut' = [called |-> TRUE, dilate |-> d, mask |-> ApplyDilation(maskIn, d)]
        /\ UNCHANGED <<imageData, growCall, segCall, splitOut, maskIn, dilOut, editorVars>>

NextDilate == Dilate \/ BuilderDilation

SpecDilate == InitDilate /\ [][NextDilate]_vars

----------------------------------------------------------------------------
(* The layer actions of the store, as the layers panel calls them *)

\* what a layer action leaves alone
LayerActionFrame ==
    UNCHANGED <<currentImage, selectedTool, isProcessing, processingMessage,
                currentMask, apiKeys, image, scale, position, samPoints, lastToast,
                runs, taskVars, harnessVars>>

\* layers.findIndex(l => l.id === layerId), 0 when there is none
IndexOfId(ls, layerId) ==
    IF \E k \in DOMAIN ls : ls[k].id = layerId
    THEN CHOOSE k \in DOMAIN ls : ls[k].id = layerId /\ \A j \in 1..(k - 1) : ls[j].id # layerId
    ELSE 0

\* onLayerAdd: addLayer({ name: `Layer ${layers.length + 1}` })
AddLayer ==
    /\ Len(layers) < MaxLayers
    /\ nextUuid < MaxUuids
    /\ LET added == AddLayerResult(layers,
                       NewLayer(Uuid(nextUuid + 1), DefaultLayerName(Len(layers) + 1),
                                NoThumbnail, NoImageData))
       IN  /\ layers' = added[1]
           /\ activeLayerId' = added[2]
    /\ nextUuid' = nextUuid + 1
    /\ LayerActionFrame

\* removeLayer(layerId)
RemoveLayer(layerId) ==
    /\ layers' = RemoveLayerResult(layers, activeLayerId, layerId)[1]
    /\ activeLayerId' = RemoveLayerResult(layers, activeLayerId, layerId)[2]
    /\ UNCHANGED nextUuid
    /\ LayerActionFrame

\* onLayerDelete of a listed layer
LayerDelete == \E k \in DOMAIN layers : RemoveLayer(layers[k].id)

\* the updates drawn: handleLayerToggle of visible, and handleLayerOpacity
\* with a slider value (the toggle of locked is the toggle of visible on
\* another field)
LayerUpdates == {"visible", "opacity"}

\* updateLayer(layerId, updates): { ...layer, ...updates } for the layer of that id
UpdateLayer ==
    \E k \in DOMAIN layers, update \in LayerUpdates :
        /\ layers' = [j \in DOMAIN layers |->
                        IF layers[j].id # layers[k].id THEN layers[j]
                        ELSE IF update = "visible"
                             THEN [layers[j] EXCEPT !.visible = ~layers[k].visible]
                        ELSE [layers[j] EXCEPT !.opacity = 50]]
        /\ layers' # layers
        /\ UNCHANGED <<activeLayerId, nextUuid>>
        /\ LayerActionFrame

\* setActiveLayer(layerId), with the id of a listed layer
SetActiveLayer ==
    \E k \in DOMAIN layers :
        /\ activeLayerId # layers[k].id
        /\ activeLayerId' = layers[k].id
        /\ UNCHANGED <<layers, nextUuid>>
        /\ LayerActionFrame

\* duplicateLayer(layerId): a copy with a new id and `${layer.name} Copy` is
\* appended; activeLayerId is not set
DuplicateLayer ==
    \E k \in DOMAIN layers :
        /\ Len(layers) < MaxLayers
        /\ nextUuid < MaxUuids
        /\ layers' = Append(layers, [layers[k] EXCEPT !.id = Uuid(nextUuid + 1),
                                                      !.name = layers[k].name \o <<"Copy">>])
        /\ nextUuid' = nextUuid + 1
        /\ UNCHANGED activeLayerId
        /\ LayerActionFrame

\* moveLayer(layerId, direction): the layer swaps places with its neighbour,
\* 'up' being the next index; nothing happens at either end
MoveLayer ==
    \E k \in DOMAIN layers, direction \in {"up", "down"} :
        LET index == IndexOfId(layers, layers[k].id)
            newIndex == IF direction = "up" THEN index + 1 ELSE index - 1
        IN  /\ newIndex \in DOMAIN layers
            /\ layers' = [layers EXCEPT ![index] = layers[newIndex],
                                        ![newIndex] = layers[index]]
            /\ UNCHANGED <<activeLayerId, nextUuid>>
            /\ LayerActionFrame

NextStore ==
    \/ HandleImageUpload
    \/ AddLayer
    \/ LayerDelete
    \/ UpdateLayer
    \/ SetActiveLayer
    \/ DuplicateLayer
    \/ MoveLayer

----------------------------------------------------------------------------
(* The pipeline over buffers: which buffer each stage reads and writes *)

\* a fresh buffer with the given content; its reference is Len of the result
Alloc(h, buffer) == Append(h, buffer)

\* assignments to the samples of the buffer behind a reference
WriteData(h, ref, data) == [h EXCEPT ![ref].data = data]

\* the images and dilate values of the runs over the heap
BufferImageInputs == { img \in SmallImageInputs : img.width * img.height <= 2 }
                         \cup {HalvesImage, CentreImage}

\* ctx.getImageData(...) of the run handler: the pixels of the image in a
\* buffer of their own, and the run's arguments
BufStart ==
    \E img \in BufferImageInputs : \E point \in PixelsOf(img), dilate \in Dilates :
        /\ bufRun.pc = "idle"
        /\ heap' = Alloc(heap, img)
        /\ bufRun' = [NoBufRun EXCEPT !.pc = "grow", !.point = point, !.dilate = dilate,
                                      !.imageData = Len(heap) + 1]
        /\ UNCHANGED <<flood, storeVars, canvasVars, generations, storeUpdates, poll, harnessVars>>

\* smartFloodFill(data, width, height, point, threshold * 0.8): data is read
\* (data[idx], data[targetIdx]) and never assigned to; the keys go to a new Set
BufGrow ==
    /\ bufRun.pc = "grow"
    /\ LET img == heap[bufRun.imageData]
       IN  bufRun' = [bufRun EXCEPT
                        !.pc = "build",
                        !.regions = smartFloodFill(img.data, img.width, img.height,
                                                   bufRun.point, PositiveThreshold(150))]
    /\ UNCHANGED <<heap, flood, storeVars, canvasVars, generations, storeUpdates, poll,
                   harnessVars>>

\* const mask = new ImageData(width, height) and regions.forEach(...), which
\* assigns to mask.data
BufBuild ==
    /\ bufRun.pc = "build"
    /\ LET img == heap[bufRun.imageData]
           h1 == Alloc(heap, NewImageData(img.width, img.height))
           mask == Len(h1)
       IN  /\ heap' = WriteData(h1, mask, RasterizeRegions(h1[mask], bufRun.regions).data)
           /\ bufRun' = [bufRun EXCEPT !.pc = "dilate", !.mask = mask]
    /\ UNCHANGED <<flood, storeVars, canvasVars, generations, storeUpdates, poll, harnessVars>>

\* the loop of dilateMask: each pass allocates newMask, assigns to
\* newMask.data from the samples of currentMask, and makes it currentMask.
\* The result is the heap and the reference of the last currentMask.
RECURSIVE DilateLoopOnHeap(_, _, _, _)
DilateLoopOnHeap(h, current, iter, iterations) ==
    IF iter < iterations
    THEN LET h1 == Alloc(h, NewImageData(h[current].width, h[current].height))
             newMask == Len(h1)
         IN  DilateLoopOnHeap(WriteData(h1, newMask, DilateOnce(h1[current]).data),
                              newMask, iter + 1, iterations)
    ELSE <<h, current>>

\* dilateMask(mask, iterations): currentMask starts as
\* new ImageData(new Uint8ClampedArray(mask.data), width, height), a copy of
\* the samples of mask
dilateMaskOnHeap(h, mask, iterations) ==
    LET h1 == Alloc(h, h[mask])
    IN  DilateLoopOnHeap(h1, Len(h1), 0, iterations)

\* if (dilate > 0) return this.dilateMask(mask, dilate); otherwise the mask
\* of the builder itself is returned
BufDilate ==
    /\ bufRun.pc = "dilate"
    /\ LET out == IF bufRun.dilate > 0
                  THEN dilateMaskOnHeap(heap, bufRun.mask, bufRun.dilate)
                  ELSE <<heap, bufRun.mask>>
       IN  /\ heap' = out[1]
           /\ bufRun' = [bufRun EXCEPT !.pc = "split", !.maskData = out[2]]
    /\ UNCHANGED <<flood, storeVars, canvasVars, generations, storeUpdates, poll, harnessVars>>

\* the layer buffer shared with the image buffer
LayerImageDataShared(h, img) == <<h, img>>

\* segmentCtx.drawImage(image, 0, 0) and segmentCtx.getImageData(...): the
\* pixels of the image in a buffer of their own
LayerImageData(h, img) == <<Alloc(h, h[img]), Len(h) + 1>>

\* one layer of the split: the layer buffer, the loop that assigns to its
\* samples where the mask's red sample passes the test, putImageData, and
\* getImageData for the stored ImageData
SplitLayerOnHeap(h, img, maskData, clearWhenZero) ==
    LET got == LayerImageData(h, img)
        h1 == got[1]
        layer == got[2]
        h2 == WriteData(h1, layer,
                  ApplyMaskLoop(h1[layer].data, h1[maskData].data,
                                4 * h1[maskData].width * h1[maskData].height, 0,
                                clearWhenZero))
    IN  Alloc(h2, [h2[layer] EXCEPT !.data = CanvasRoundTrip(h2[layer].data)])

\* the split of the run handler: the segment layer, then the background layer
BufSplit ==
    /\ bufRun.pc = "split"
    /\ LET h1 == SplitLayerOnHeap(heap, bufRun.imageData, bufRun.maskData, TRUE)
           h2 == SplitLayerOnHeap(h1, bufRun.imageData, bufRun.maskData, FALSE)
       IN  /\ heap' = h2
           /\ bufRun' = [bufRun EXCEPT !.pc = "done", !.segmentData = Len(h1),
                                       !.backgroundData = Len(h2)]
    /\ UNCHANGED <<flood, storeVars, canvasVars, generations, storeUpdates, poll, harnessVars>>

NextBuffers ==
    \/ BufStart
    \/ BufGrow
    \/ BufBuild
    \/ BufDilate
    \/ BufSplit

----------------------------------------------------------------------------
(* smartFloodFill, one pass of its while loop at a time *)

\* the loop's continue test with the visited set left out
SkippedOutOfBoundsOnly(key, x, y, visited, width, height) ==
    OutOfBounds(x, y, width, height)

\* if (visited.has(key) || x < 0 || x >= width || y < 0 || y >= height) continue;
Skipped(key, x, y, visited, width, height) ==
    key \in visited \/ OutOfBounds(x, y, width, height)

\* smartFloodFill(data, width, height, point, threshold) is called: two
\* empty sets and the queue [point]
FloodStart ==
    \E img \in SegmentImageInputs :
        \E point \in PixelsOf(img) \cup SeedsOutside(img), t \in GrowThresholds :
            /\ flood.pc = "idle"
            /\ flood' = [NoFlood EXCEPT !.pc = "loop", !.img = img, !.point = point,
                                        !.threshold = t, !.queue = <<point>>]
            /\ UNCHANGED <<heap, bufRun, storeVars, canvasVars, generations, storeUpdates,
                           poll, harnessVars>>

\* one pass of while (queue.length > 0): queue.shift(), the continue test,
\* visited.add(key), the colour comparison and, within the threshold,
\* regions.add(key) and the push of the four neighbours.  compared and
\* pushed record the keys that got as far as the comparison and the push.
FloodPass ==
    /\ flood.pc = "loop"
    /\ flood.queue # <<>>
    /\ LET x == Head(flood.queue)[1]
           y == Head(flood.queue)[2]
           rest == Tail(flood.queue)
           key == RegionKey(x, y)
           img == flood.img
           targetIdx == (flood.point[2] * img.width + flood.point[1]) * 4
       IN  IF Skipped(key, x, y, flood.visited, img.width, img.height)
           THEN flood' = [flood EXCEPT !.queue = rest]
           ELSE IF DistanceWithin(img.data, (y * img.width + x) * 4, targetIdx,
                                  flood.threshold)
                THEN flood' = [flood EXCEPT !.queue = rest \o Neighbors(x, y),
                                           !.visited = @ \cup {key},
                                           !.regions = @ \cup {key},
                                           !.compared = Append(@, key),
                                           !.pushed = Append(@, key)]
                ELSE flood' = [flood EXCEPT !.queue = rest,
                                           !.visited = @ \cup {key},
                                           !.compared = Append(@, key)]
    /\ UNCHANGED <<heap, bufRun, storeVars, canvasVars, generations, storeUpdates,
                   poll, harnessVars>>

\* the queue is empty: return regions
FloodReturn ==
    /\ flood.pc = "loop"
    /\ flood.queue = <<>>
    /\ flood' = [flood EXCEPT !.pc = "returned"]
    /\ UNCHANGED <<heap, bufRun, storeVars, canvasVars, generations, storeUpdates,
                   poll, harnessVars>>

NextFlood ==
    \/ FloodStart
    \/ FloodPass
    \/ FloodReturn

----------------------------------------------------------------------------
(* AIService.pollReplicateResult *)

\* the status field of a prediction, as the status request returns it
PredictionStatuses == {"starting", "processing", "succeeded", "failed", "canceled"}

\* for (let attempt = 0; attempt < maxAttempts; attempt++)
AttemptLoopTestInclusive(attempt) == attempt <= maxAttempts
AttemptLoopTest(attempt) == attempt < maxAttempts

\* pollReplicateResult(predictionId) is called: attempt = 0, the loop test
\* next
PollStart ==
    /\ poll.pc = "idle"
    /\ poll' = [pc |-> "loop", attempt |-> 0, requests |-> 0, status |-> "none"]
    /\ UNCHANGED <<storeVars, canvasVars, generations, storeUpdates, bufferVars,
                   harnessVars>>

\* the loop test holds, axios.get is issued and resolves with a status:
\* 'succeeded' returns the output, 'failed' throws, any other status goes on
\* to the wait
PollStatus ==
    \E status \in PredictionStatuses :
        /\ poll.pc = "loop"
        /\ AttemptLoopTest(poll.attempt)
        /\ poll' = [poll EXCEPT !.requests = @ + 1,
                                !.status = status,
                                !.pc = CASE status = "succeeded" -> "returned"
                                         [] status = "failed" -> "thrownFailed"
                                         [] OTHER -> "waiting"]
        /\ UNCHANGED <<storeVars, canvasVars, generations, storeUpdates, bufferVars,
                   harnessVars>>

\* the loop test holds, axios.get is issued and rejects: the rejection leaves
\* pollReplicateResult, which has no catch
PollRequestRejected ==
    /\ poll.pc = "loop"
    /\ AttemptLoopTest(poll.attempt)
    /\ poll' = [poll EXCEPT !.requests = @ + 1, !.status = "none",
                            !.pc = "thrownRequest"]
    /\ UNCHANGED <<storeVars, canvasVars, generations, storeUpdates, bufferVars,
                   harnessVars>>

\* the timer of pollInterval fires: attempt++ and back to the loop test
PollWake ==
    /\ poll.pc = "waiting"
    /\ poll' = [poll EXCEPT !.attempt = @ + 1, !.pc = "loop"]
    /\ UNCHANGED <<storeVars, canvasVars, generations, storeUpdates, bufferVars,
                   harnessVars>>

\* the loop test fails: throw new Error('Generation timeout')
PollTimeout ==
    /\ poll.pc = "loop"
    /\ ~AttemptLoopTest(poll.attempt)
    /\ poll' = [poll EXCEPT !.pc = "thrownTimeout"]
    /\ UNCHANGED <<storeVars, canvasVars, generations, storeUpdates, bufferVars,
                   harnessVars>>

NextPoll ==
    \/ PollStart
    \/ PollStatus
    \/ PollRequestRejected
    \/ PollWake
    \/ PollTimeout

----------------------------------------------------------------------------
(* The editor session *)

Init ==
    /\ imageData = NewImageData(0, 0)
    /\ growCall = NoGrowCall
    /\ segCall = NoSegCall
    /\ splitOut = NoSplit
    /\ maskIn = NoMask
    /\ dilOut = <<>>
    /\ applyOut = NoApply
    /\ InitEditor

Next ==
    \/ HandleImageUpload
    \/ ImageOnLoad
    \/ HandleToolSelect
    \/ SetSelectedToolRun
    \/ StageClickAddPoint
    \/ StageClickRunNoPoints
    \/ StageClickRun
    \/ RunImported
    \/ RunResolved
    \/ RunFailed
    \/ RunFailedLate
    \/ SaveAPIKeys
    \/ HandleAIGenerate
    \/ GenerateSettled
    \/ ClearSamPoints

Spec == Init /\ [][Next]_vars

\* The view of the canvas.  Zoom, reset and drag write scale and position
\* only, and these are read only where a click is turned into a point; the
\* runs and the layer list read neither.  The view is explored with the
\* handlers that load an image and collect points.
NextCanvas ==
    \/ HandleImageUpload
    \/ ImageOnLoad
    \/ HandleToolSelect
    \/ StageClickAddPoint
    \/ ClearSamPoints
    \/ HandleZoomIn
    \/ HandleZoomOut
    \/ HandleReset
    \/ StageDragEnd

SpecCanvas == Init /\ [][NextCanvas]_vars

\* The layer list under the layer actions and the upload of an image.
SpecStore == Init /\ [][NextStore]_vars

\* One pipeline run over the heap, for every image, seed and dilate drawn.
SpecBuffers == Init /\ [][NextBuffers]_vars

\* One call of smartFloodFill.  The loop is synchronous code: a pass that
\* can be made is made.
SpecFlood == Init /\ [][NextFlood]_vars /\ WF_vars(NextFlood)

\* One call of pollReplicateResult, under every sequence of responses.
SpecPoll == Init /\ [][NextPoll]_vars

\* The same, where every status request settles and every timer fires: the
\* call is not left suspended for ever at an await.
SpecPollFair == SpecPoll /\ WF_vars(NextPoll)

----------------------------------------------------------------------------
(* Properties of the region grower *)

\* the pixel coordinates of a set of region keys
CoordsOf(regions) == { ParseKey(k) : k \in regions }

\* Euclidean RGB distance of pixels p and q of img, divided by 255, is at
\* most t thousandths: 10^6 d2 <= (255 t)^2, with 255 t split as 1000 a + b
\* to keep the products small
ColourClose(img, p, q, t) ==
    LET ip == (p[2] * img.width + p[1]) * 4
        iq == (q[2] * img.width + q[1]) * 4
        d2 == (img.data[ip] - img.data[iq]) * (img.data[ip] - img.data[iq])
              + (img.data[ip + 1] - img.data[iq + 1]) * (img.data[ip + 1] - img.data[iq + 1])
              + (img.data[ip + 2] - img.data[iq + 2]) * (img.data[ip + 2] - img.data[iq + 2])
        a  == (255 * t) \div 1000
        b  == (255 * t) % 1000
    IN  d2 - a * a <= (2000 * a * b + b * b) \div 1000000

\* p and q are one step apart: up, down, left or right
Adjacent4(p, q) ==
    \/ p[1] = q[1] /\ (p[2] = q[2] + 1 \/ q[2] = p[2] + 1)
    \/ p[2] = q[2] /\ (p[1] = q[1] + 1 \/ q[1] = p[1] + 1)

\* the pixels joined to the seed by a 4-connected path of pixels whose
\* colour is close to the seed's: least fixpoint from the seed
RECURSIVE PathClosure(_, _, _, _)
PathClosure(img, seed, t, S) ==
    LET S2 == S \cup { q \in PixelsOf(img) :
                         /\ ColourClose(img, q, seed, t)
                         /\ \E p \in S : Adjacent4(p, q) }
    IN  IF S2 = S THEN S ELSE PathClosure(img, seed, t, S2)

PathRegion(img, seed, t) == PathClosure(img, seed, t, {seed})

\* C7: grow returns exactly the pixels joined to the seed by a path of
\* up/down/left/right steps through pixels whose colour is within the
\* threshold of the seed's colour, and the seed is always among them.
C7_GrowIsPathRegion ==
    (growCall.called /\ growCall.seed \in PixelsOf(imageData)) =>
        /\ CoordsOf(growCall.regions)
             = PathRegion(imageData, growCall.seed, growCall.threshold)
        /\ RegionKey(growCall.seed[1], growCall.seed[2]) \in growCall.regions
        /\ Cardinality(growCall.regions) = Cardinality(CoordsOf(growCall.regions))

\* a grow that left out a pixel of close colour touching the region only
\* diagonally, and one of close colour that no path reaches
C7_Witness ==
    /\ growCall.called
    /\ Cardinality(growCall.regions) >= 2
    /\ \E q \in PixelsOf(imageData) \ CoordsOf(growCall.regions) :
          /\ ColourClose(imageData, q, growCall.seed, growCall.threshold)
          /\ \E p \in CoordsOf(growCall.regions) :
                p[1] # q[1] /\ p[2] # q[2]
                /\ p[1] - q[1] \in {-1, 1} /\ p[2] - q[2] \in {-1, 1}

\* C10: every coordinate grow returns lies inside the image; a neighbour
\* beyond the right or left edge is not taken for a pixel of the next or
\* previous row.
C10_GrowInBounds ==
    growCall.called =>
        \A k \in growCall.regions :
            /\ 0 <= ParseKey(k)[1] /\ ParseKey(k)[1] < imageData.width
            /\ 0 <= ParseKey(k)[2] /\ ParseKey(k)[2] < imageData.height

\* a grow from a seed whose region reaches the right edge in a row below
\* which the first pixel has a close colour and yet stays outside the region
C10_Witness ==
    /\ growCall.called
    /\ imageData.width >= 2
    /\ \E y \in 0..(imageData.height - 2) :
          /\ <<imageData.width - 1, y>> \in CoordsOf(growCall.regions)
          /\ <<0, y + 1>> \notin CoordsOf(growCall.regions)
          /\ ColourClose(imageData, <<0, y + 1>>, growCall.seed, growCall.threshold)

----------------------------------------------------------------------------
\* every pixel of img has the red, green and blue of its first pixel
IsUniform(img) ==
    \A p \in 0..(img.width * img.height - 1), c \in 0..2 :
        img.data[4 * p + c] = img.data[c]

\* C11: on an image whose pixels all have the same RGB colour, grow from any
\* seed inside the image, at any threshold >= 0, returns every pixel.
C11_UniformImageFullyGrown ==
    ( /\ growCall.called
      /\ growCall.seed \in PixelsOf(imageData)
      /\ growCall.threshold >= 0
      /\ IsUniform(imageData) )
    => /\ CoordsOf(growCall.regions) = PixelsOf(imageData)
       /\ Cardinality(growCall.regions) = imageData.width * imageData.height

\* a grow at threshold 0 on a uniform image of the largest size drawn, from
\* a seed that is not the first pixel
C11_Witness ==
    /\ growCall.called
    /\ IsUniform(imageData)
    /\ imageData.width >= 3 /\ imageData.height >= 2
    /\ growCall.threshold = 0
    /\ growCall.seed \in PixelsOf(imageData) \ {<<0, 0>>}
    /\ Cardinality(growCall.regions) = imageData.width * imageData.height

\* the number of places of a sequence that hold the element
Occurrences(seq, e) == Cardinality({ k \in DOMAIN seq : seq[k] = e })

\* no key got to the colour comparison twice, none had its neighbours pushed
\* twice, the queue holds no more than the seed and four neighbours for each
\* push, and the call returns what smartFloodFill returns
FloodExpandsOnce ==
    /\ \A k \in DOMAIN flood.compared : Occurrences(flood.compared, flood.compared[k]) = 1
    /\ \A k \in DOMAIN flood.pushed : Occurrences(flood.pushed, flood.pushed[k]) = 1
    /\ Len(flood.compared) <= flood.img.width * flood.img.height
    /\ Len(flood.queue) <= 1 + 4 * Len(flood.pushed)
    /\ flood.pc = "returned" =>
            flood.regions = smartFloodFill(flood.img.data, flood.img.width,
                                           flood.img.height, flood.point, flood.threshold)

\* C25: a call of smartFloodFill returns, for every image and seed, and no
\* pixel is compared with the seed or has its neighbours enqueued more than
\* once, however often its coordinate is on the queue.
C25_FloodFillTerminates ==
    /\ []FloodExpandsOnce
    /\ (flood.pc = "loop") ~> (flood.pc = "returned")

\* the call has returned with every pixel of a 4x3 image compared once and
\* six of them pushed, each of which was put on the queue by its neighbours
C25_Witness ==
    /\ flood.pc = "returned"
    /\ Cardinality(flood.regions) >= 6
    /\ Len(flood.compared) = flood.img.width * flood.img.height

----------------------------------------------------------------------------
(* Properties of the split of the image by the mask *)

PixelIndexes(img) == 0..(img.width * img.height - 1)

Alpha(img, p) == img.data[4 * p + 3]
Red(img, p) == img.data[4 * p]

\* C1: in the split, a pixel whose mask red sample is 0 has alpha 0 in the
\* object layer, and a pixel whose mask red sample is non-zero keeps the
\* four samples of the source image in the object layer.
C1_ObjectLayerFollowsMask ==
    splitOut.done =>
        \A p \in PixelIndexes(imageData) :
            /\ Red(segCall.result.mask, p) = 0 => Alpha(splitOut.segmentData, p) = 0
            /\ Red(segCall.result.mask, p) # 0 =>
                  \A c \in 0..3 : splitOut.segmentData.data[4 * p + c]
                                     = imageData.data[4 * p + c]

\* C2: after the split, a pixel of source alpha > 0 is visible in exactly
\* one of the object layer and the background layer, and a pixel of source
\* alpha 0 has alpha 0 in both.
C2_LayersComplementary ==
    splitOut.done =>
        \A p \in PixelIndexes(imageData) :
            IF Alpha(imageData, p) > 0
            THEN (Alpha(splitOut.segmentData, p) > 0)
                    # (Alpha(splitOut.backgroundData, p) > 0)
            ELSE /\ Alpha(splitOut.segmentData, p) = 0
                 /\ Alpha(splitOut.backgroundData, p) = 0

\* the image is opaque, its left half has one colour, its right half another,
\* and the two are farther apart than t thousandths
IsHalves(img, t) ==
    /\ img.width % 2 = 0
    /\ \A p \in PixelIndexes(img) :
          /\ Alpha(img, p) = 255
          /\ \A c \in 0..2 :
                img.data[4 * p + c]
                  = img.data[4 * (IF p % img.width < img.width \div 2
                                   THEN 0 ELSE img.width - 1) + c]
    /\ ~ColourClose(img, <<0, 0>>, <<img.width - 1, 0>>, t)

LeftHalf(img) == { p \in PixelIndexes(img) : p % img.width < img.width \div 2 }

\* C3: on an opaque two-halves image with one positive point in the left
\* half, no negative point and dilate 0, the mask selects exactly the left
\* half, the object layer is opaque exactly there and the background layer
\* is opaque exactly on the right half.
C3_EndToEndHalves ==
    ( /\ splitOut.done
      /\ IsHalves(imageData, segCall.threshold)
      /\ segCall.positivePoints.present
      /\ Len(segCall.positivePoints.points) = 1
      /\ segCall.positivePoints.points[1][1] < imageData.width \div 2
      /\ segCall.negativePoints.points = <<>>
      /\ segCall.dilate = 0 )
    => /\ { p \in PixelIndexes(imageData) : Red(segCall.result.mask, p) # 0 }
            = LeftHalf(imageData)
       /\ { p \in PixelIndexes(imageData) : Alpha(splitOut.segmentData, p) = 255 }
            = LeftHalf(imageData)
       /\ { p \in PixelIndexes(imageData) : Alpha(splitOut.backgroundData, p) = 255 }
            = PixelIndexes(imageData) \ LeftHalf(imageData)

----------------------------------------------------------------------------
(* Properties of the mask builder *)

\* the positive points a call builds from
PositivesOf(call) ==
    IF call.positivePoints.present THEN call.positivePoints.points
    ELSE <<call.clickPoint>>

\* C4: the builder called with an empty sequence of positive points fails
\* with an InvalidInput error and returns no mask.
C4_EmptyPositivesRejected ==
    ( /\ segCall.called
      /\ segCall.positivePoints.present
      /\ segCall.positivePoints.points = <<>> )
    => segCall.result.error = "InvalidInput"

GrowOf(img, point, t) == smartFloodFill(img.data, img.width, img.height, point, t)

UnionOfGrows(img, points, t) ==
    UNION { GrowOf(img, points[i], t) : i \in 1..Len(points) }

\* C6: the keys the builder rasterizes are the union of the positive
\* points' regions at 0.8 t minus the union of the negative points' regions
\* at 0.6 t.
C6_BuildIsUnionMinusUnion ==
    ( /\ segCall.called
      /\ PositivesOf(segCall) # <<>> )
    => /\ segCall.result.error = "none"
       /\ segCall.result.regions
            = UnionOfGrows(imageData, PositivesOf(segCall),
                           (8 * segCall.threshold) \div 10)
              \ UnionOfGrows(imageData, segCall.negativePoints.points,
                             (6 * segCall.threshold) \div 10)

\* a build with two positive points clicked in different regions, a negative
\* point whose region takes pixels out of a positive region, and a non-empty
\* result
C6_Witness ==
    /\ segCall.called
    /\ Len(PositivesOf(segCall)) = 2
    /\ GrowOf(imageData, PositivesOf(segCall)[1], (8 * segCall.threshold) \div 10)
         # GrowOf(imageData, PositivesOf(segCall)[2], (8 * segCall.threshold) \div 10)
    /\ segCall.negativePoints.points # <<>>
    /\ segCall.result.regions # {}
    /\ \E k \in UnionOfGrows(imageData, PositivesOf(segCall),
                              (8 * segCall.threshold) \div 10) :
          k \notin segCall.result.regions

\* a point of a call lies outside the image
PointOutside(img, point) == OutOfBounds(point[1], point[2], img.width, img.height)

\* C18: a seed outside the image handed to the region grower, or a positive
\* point outside the image handed to the mask builder, is rejected with an
\* InvalidInput error; no region and no mask is returned.
C18_OutOfBoundsSeedRejected ==
    /\ (growCall.called /\ PointOutside(imageData, growCall.seed))
          => growCall.error = "InvalidInput"
    /\ ( /\ segCall.called
         /\ \E i \in DOMAIN PositivesOf(segCall) :
                PointOutside(imageData, PositivesOf(segCall)[i]) )
          => segCall.result.error = "InvalidInput"

----------------------------------------------------------------------------
(* Properties of the dilator *)

\* the pixels the dilator takes for selected: alpha > 128
SelectedPixels(mask) == { p \in PixelIndexes(mask) : Alpha(mask, p) > 128 }

\* C8: for iteration counts i < j the selected pixels of dilate(mask, i) are
\* among the selected pixels of dilate(mask, j).
C8_DilationMonotonic ==
    \A i \in DOMAIN dilOut, j \in DOMAIN dilOut :
        i < j => SelectedPixels(dilOut[i]) \subseteq SelectedPixels(dilOut[j])

\* C9: dilation with 0 iterations returns the width, height and samples of
\* its input, through dilateMask(mask, 0) and through the builder's step
\* that skips dilation when dilate is 0.
C9_DilateZeroIsIdentity ==
    /\ Len(dilOut) >= 1 => dilOut[1] = maskIn
    /\ (applyOut.called /\ applyOut.dilate = 0) => applyOut.mask = maskIn

\* both paths taken with 0 on a mask that one iteration does change
C9_Witness ==
    /\ Len(dilOut) >= 2
    /\ dilOut[2] # maskIn
    /\ SelectedPixels(maskIn) # {}
    /\ applyOut.called
    /\ applyOut.dilate = 0

\* the four samples of pixel (x, y)
PixelAt(mask, x, y) ==
    [c \in 1..4 |-> mask.data[(y * mask.width + x) * 4 + (c - 1)]]

\* (x, y) is off the first and last row and column
Interior(mask, x, y) ==
    /\ 1 <= x /\ x < mask.width - 1
    /\ 1 <= y /\ y < mask.height - 1

\* some pixel of the 3x3 neighbourhood of an interior (x, y), itself
\* included, has alpha > 128
NeighbourhoodSelected(mask, x, y) ==
    \E q \in PixelsOf(mask) :
        /\ q[1] - x \in -1..1
        /\ q[2] - y \in -1..1
        /\ PixelAt(mask, q[1], q[2])[4] > 128

\* C23: one iteration gives a buffer of the same size in which an interior
\* pixel is (255,100,255,180) exactly when its 3x3 neighbourhood in the input
\* has a pixel of alpha > 128, and every other pixel is (0,0,0,0).
C23_OneIterationRule ==
    Len(dilOut) >= 2 =>
        /\ dilOut[2].width = maskIn.width
        /\ dilOut[2].height = maskIn.height
        /\ DOMAIN dilOut[2].data = DOMAIN maskIn.data
        /\ \A p \in PixelsOf(maskIn) :
              PixelAt(dilOut[2], p[1], p[2]) =
                  IF Interior(maskIn, p[1], p[2]) /\ NeighbourhoodSelected(maskIn, p[1], p[2])
                  THEN <<255, 100, 255, 180>>
                  ELSE <<0, 0, 0, 0>>

\* one iteration on a mask whose interior pixel is not selected itself but
\* has a selected neighbour, which is on the border and is dropped
C23_Witness ==
    /\ Len(dilOut) >= 2
    /\ \E p \in PixelsOf(maskIn) :
          /\ Interior(maskIn, p[1], p[2])
          /\ PixelAt(maskIn, p[1], p[2])[4] <= 128
          /\ PixelAt(dilOut[2], p[1], p[2]) = <<255, 100, 255, 180>>
    /\ \E p \in PixelsOf(maskIn) :
          /\ ~Interior(maskIn, p[1], p[2])
          /\ PixelAt(maskIn, p[1], p[2])[4] > 128
          /\ PixelAt(dilOut[2], p[1], p[2]) = <<0, 0, 0, 0>>

\* the greater of the distances along x and along y
Chebyshev(p, q) ==
    LET dx == IF p[1] >= q[1] THEN p[1] - q[1] ELSE q[1] - p[1]
        dy == IF p[2] >= q[2] THEN p[2] - q[2] ELSE q[2] - p[2]
    IN  IF dx >= dy THEN dx ELSE dy

\* C24: for n >= 1, dilate(mask, n) is one iteration applied to
\* dilate(mask, n-1), and an interior pixel is selected in dilate(mask, n)
\* exactly when a pixel selected in mask lies within Chebyshev distance n.
C24_IterationsCompose ==
    \A k \in 2..Len(dilOut) :
        /\ dilOut[k] = dilateMask(dilOut[k - 1], 1)
        /\ \A p \in PixelsOf(maskIn) :
              Interior(maskIn, p[1], p[2]) =>
                  ( PixelAt(dilOut[k], p[1], p[2])[4] > 128
                    <=> \E q \in PixelsOf(maskIn) :
                           /\ PixelAt(maskIn, q[1], q[2])[4] > 128
                           /\ Chebyshev(p, q) <= k - 1 )

\* two iterations reach an interior pixel that one iteration does not: the
\* only selected pixels are at distance 2 of it
C24_Witness ==
    /\ Len(dilOut) >= 3
    /\ \E p \in PixelsOf(maskIn) :
          /\ Interior(maskIn, p[1], p[2])
          /\ PixelAt(dilOut[2], p[1], p[2])[4] <= 128
          /\ PixelAt(dilOut[3], p[1], p[2])[4] > 128

----------------------------------------------------------------------------
(* Properties of the run action *)

\* a click on the stage with the run tool selected
RunAction == StageClickRunNoPoints \/ StageClickRun

\* C5: a run action taken while the point set holds no positive point starts
\* no run: the processing flag is not set, the point set and the layer list
\* stay as they are and an error toast is shown.
C5_NoRunWithoutPositive ==
    [][ (RunAction /\ PointsOfType(samPoints, "positive") = <<>>)
        => /\ runs' = runs
           /\ isProcessing' = FALSE
           /\ samPoints' = samPoints
           /\ layers' = layers
           /\ lastToast'[1] = "error" ]_vars

\* C12: at most one segmentation run is in flight at any time; a click with
\* the run tool while an earlier run is unresolved starts no second run.
C12_OneRunInFlight ==
    /\ Len(runs) <= 1
    /\ (runs # <<>>) => ~ENABLED StageClickRun

\* a run is in flight while the run tool is selected and points are held, so
\* that only the overlay keeps a click from starting another run
C12_Witness ==
    /\ Len(runs) = 1
    /\ runs[1].pc = "segmented"
    /\ selectedTool = "sam2-run"
    /\ samPoints # <<>>
    /\ image # NullName
    /\ isProcessing

\* a layer designated background: the initial layer, or the background layer
\* a run inserts
BackgroundLike(l) ==
    \/ l.id = BackgroundId
    \/ l.name = <<"Background", 0>>
    \/ l.name = <<"Background (Unselected)", 0>>

BackgroundCount(ls) == Cardinality({ k \in DOMAIN ls : BackgroundLike(ls[k]) })

\* C13: the layer list never passes, between the store updates at the end of
\* a run, through a list with zero or with three background layers.
C13_NoZeroOrThreeBackgrounds ==
    \A k \in 1..(Len(storeUpdates) - 1) :
        BackgroundCount(storeUpdates[k]) \notin {0, 3}

\* C14: after every successful run, the first on an image or a later one,
\* the layer list holds exactly one background layer, the one that run
\* inserted.
C14_OneBackgroundAfterRun ==
    [][ \A i \in DOMAIN runs :
          RunResolvedAt(i) =>
             /\ BackgroundCount(layers') = 1
             /\ \E k \in DOMAIN layers' :
                   /\ BackgroundLike(layers'[k])
                   /\ layers'[k].id = Uuid(nextUuid + 1) ]_vars

\* C15: when a run succeeds the point set is empty, the last two layers are
\* the new background layer and then the new object layer, the object layer
\* is active, and the processing flag is false.
C15_SuccessLeavesLayersOnTop ==
    [][ \A i \in DOMAIN runs :
          RunResolvedAt(i) =>
             /\ samPoints' = <<>>
             /\ isProcessing' = FALSE
             /\ Len(layers') >= 2
             /\ LET n == Len(layers')
                IN  /\ layers'[n - 1].id = Uuid(nextUuid + 1)
                    /\ layers'[n - 1].name = <<"Background (Unselected)", 0>>
                    /\ layers'[n].id = Uuid(nextUuid + 2)
                    /\ layers'[n].name = <<"Selected Object", 0>>
                    /\ activeLayerId' = layers'[n].id ]_vars

\* the state a successful run on two points leaves
C15_Witness ==
    /\ lastToast = Toast("success", "Object segmented and separated into layers!")
    /\ Len(layers) >= 2
    /\ layers[Len(layers)].name = <<"Selected Object", 0>>
    /\ layers[Len(layers) - 1].name = <<"Background (Unselected)", 0>>
    /\ activeLayerId = layers[Len(layers)].id
    /\ samPoints = <<>>
    /\ ~isProcessing

\* the run handler's tests pass on a click once the run tool is selected
RunOpen == CanvasReachable /\ image # NullName /\ samPoints # <<>>

\* C16: when a run fails, at the import, at the segmentation or after it, the
\* point set is the one the run started with, the processing flag is false,
\* and the run action can be taken again with those points.
C16_FailureKeepsPoints ==
    [][ \A i \in DOMAIN runs :
          (RunFailedAt(i) \/ \E step \in LateFailureSteps : RunFailedLateAt(i, step))
          => /\ samPoints' = runs[i].samPoints
             /\ isProcessing' = FALSE
             /\ RunOpen' ]_vars

\* the state a failed run on two points leaves, the run tool still selected
C16_Witness ==
    /\ lastToast = Toast("error", "Segmentation failed. Please try again.")
    /\ Len(samPoints) = 2
    /\ samPoints[1] # samPoints[2]
    /\ ~isProcessing
    /\ selectedTool = "sam2-run"
    /\ ENABLED StageClickRun

----------------------------------------------------------------------------
(* Properties of the collected points *)

\* C17: in every reachable state every point of the point set lies inside the
\* image that is loaded: 0 <= x <= width - 1 and 0 <= y <= height - 1.
C17_PointsInsideLoadedImage ==
    image # NullName =>
        \A k \in DOMAIN samPoints :
            /\ samPoints[k].x \in 0..(ImageNamed(image).width - 1)
            /\ samPoints[k].y \in 0..(ImageNamed(image).height - 1)

----------------------------------------------------------------------------
(* Properties of the layer list *)

\* this step calls removeLayer with the id: the delete of the layers panel,
\* or the end of a run, which calls removeLayer('background')
RemoveLayerCalled(layerId) ==
    \/ RemoveLayer(layerId)
    \/ layerId = BackgroundId /\ (RunResolved \/ RunFailedLate)

\* C19: a layer of the list is still in the list after every step that is
\* not a removeLayer of its id, whichever action the step is.
C19_LayersPersist ==
    [][ \A k \in DOMAIN layers :
           \/ \E j \in DOMAIN layers' : layers'[j].id = layers[k].id
           \/ RemoveLayerCalled(layers[k].id) ]_vars

----------------------------------------------------------------------------
(* Properties of the polling of a prediction *)

\* pollReplicateResult has returned or thrown
PollEnded == poll.pc \in {"returned", "thrownFailed", "thrownTimeout", "thrownRequest"}

\* the outcome fits the responses read: at most maxAttempts requests; the
\* call has returned exactly when the last response read 'succeeded', and
\* thrown the failure exactly when it read 'failed', so that no response is
\* read past the first of either; the timeout is thrown after maxAttempts
\* requests whose last response carried neither
PollOutcomeFitsResponses ==
    /\ poll.requests <= maxAttempts
    /\ (poll.pc = "returned") <=> (poll.status = "succeeded")
    /\ (poll.pc = "thrownFailed") <=> (poll.status = "failed")
    /\ (poll.pc = "thrownTimeout") =>
            /\ poll.requests = maxAttempts
            /\ poll.status \in PredictionStatuses \ {"succeeded", "failed"}
    /\ (poll.requests = maxAttempts /\ poll.pc = "loop") => ENABLED PollTimeout

----------------------------------------------------------------------------
(* Properties of the generation request *)

\* the key of the provider is among the keys
KeyOf(keys, provider) ==
    IF provider = "Replicate" THEN keys.replicate ELSE keys.deepinfra

\* C21: a generation started from the AI panel with the key of the provider
\* the panel lists for its model settles in no other way than with a
\* request sent to that provider: never with 'Unsupported model provider'.
C21_PanelModelReachesItsProvider ==
    \A i \in DOMAIN generations :
        KeyOf(generations[i].apiKeys, PanelProvider(generations[i].model)) =>
            \A outcome \in generateImage(generations[i].model, generations[i].apiKeys) :
                /\ outcome.provider = PanelProvider(generations[i].model)
                /\ outcome.message # "Unsupported model provider"

----------------------------------------------------------------------------
(* Properties of the buffers of a pipeline run *)

\* the buffers handed to the stage that is about to run: the image data for
\* every stage, the builder's mask for the dilation, the returned mask for
\* the split
StageInputs ==
    CASE bufRun.pc \in {"grow", "build"} -> {bufRun.imageData}
      [] bufRun.pc = "dilate" ->
            {bufRun.imageData} \cup (IF bufRun.dilate > 0 THEN {bufRun.mask} ELSE {})
      [] bufRun.pc = "split" -> {bufRun.imageData, bufRun.maskData}
      [] OTHER -> {}

\* C22: grow, build, dilate and split leave the samples of the image buffer
\* as they were, and dilate and split leave the samples of the mask buffer
\* they were handed as they were.
C22_InputBuffersUntouched ==
    [][ \A ref \in StageInputs : heap'[ref] = heap[ref] ]_vars

\* a run with a dilation is through the split, the mask selects a pixel and
\* the split has cleared a pixel of the segment layer
C22_Witness ==
    /\ bufRun.pc = "done"
    /\ bufRun.dilate > 0
    /\ \E i \in DOMAIN heap[bufRun.maskData].data : heap[bufRun.maskData].data[i] > 0
    /\ heap[bufRun.segmentData] # heap[bufRun.imageData]

----------------------------------------------------------------------------
(* Properties of the active layer *)

\* activeLayerId is null or the id of exactly one listed layer, and it is
\* not null while a layer is listed
ActiveLayerListed ==
    /\ \/ activeLayerId = NullId
       \/ Cardinality({ k \in DOMAIN layers : layers[k].id = activeLayerId }) = 1
    /\ layers # <<>> => activeLayerId # NullId

\* C26: under the layer actions and the load of an image, setActiveLayer
\* being called with listed ids only, activeLayerId is null or names exactly
\* one listed layer and is not null while the list is not empty; a
\* removeLayer of the active layer makes the first remaining layer active,
\* or none when no layer remains.
C26_ActiveLayerIsListed ==
    /\ []ActiveLayerListed
    /\ [][ \A k \in DOMAIN layers :
              (layers[k].id = activeLayerId /\ RemoveLayer(layers[k].id)) =>
                  /\ \A j \in DOMAIN layers' : layers'[j].id # layers[k].id
                  /\ activeLayerId' = IF layers' = <<>> THEN NullId ELSE layers'[1].id ]_vars

\* three layers were added, which left the third active, and two are left
\* with the first of them active
C26_Witness ==
    /\ nextUuid = 3
    /\ currentImage = NullName
    /\ Len(layers) = 2
    /\ layers[1].id = Uuid(1)
    /\ layers[2].id = Uuid(2)
    /\ activeLayerId = Uuid(1)

----------------------------------------------------------------------------
(* Properties of the returned mask *)

\* C27: with positive points inside the image and no negative point, the
\* pixel of every positive point is selected in the mask segmentWithSAM2
\* returns, on the border of the image as elsewhere and for every dilate.
C27_SeedsSelected ==
    ( /\ segCall.called
      /\ segCall.result.error = "none"
      /\ PositivesOf(segCall) # <<>>
      /\ EffectiveNegatives(segCall.negativePoints) = <<>>
      /\ \A i \in DOMAIN PositivesOf(segCall) : PositivesOf(segCall)[i] \in PixelsOf(imageData) )
    => \A i \in DOMAIN PositivesOf(segCall) :
          PixelAt(segCall.result.mask, PositivesOf(segCall)[i][1],
                  PositivesOf(segCall)[i][2])[4] > 128

----------------------------------------------------------------------------
(* Properties of the processing flag *)

\* C28: isProcessing is true while a segmentation run or a generation
\* request is in flight; no completion leaves it false with a task
\* unresolved.
C28_ProcessingWhileInFlight ==
    (runs # <<>> \/ generations # <<>>) => isProcessing

\* a generation is in flight after a run has completed and cleared the flag
C28_Witness ==
    /\ generations # <<>>
    /\ isProcessing
    /\ lastToast = Toast("success", "Object segmented and separated into layers!")

----------------------------------------------------------------------------
(* Properties of a failed run *)

\* this step is run i ending in catch, at whichever step it threw
RunFailsAt(i) ==
    \/ RunFailedAt(i)
    \/ \E step \in LateFailureSteps : RunFailedLateAt(i, step)

\* C29: a run that fails, at any step up to its last store update, leaves
\* the layer list and the active layer id as they were when it started: the
\* list its closure holds, when no other action has written the list since.
C29_FailedRunKeepsLayers ==
    [][ \A i \in DOMAIN runs :
           (RunFailsAt(i) /\ layers = runs[i].layers) =>
               /\ layers' = runs[i].layers
               /\ activeLayerId' = activeLayerId ]_vars

----------------------------------------------------------------------------
(* Properties of the tools offered *)

\* C30: a run can be started through the UI: once an image has loaded and
\* points are collected, there is a tool id among those ToolPanel and
\* SegmentationPanel offer with which a click on the stage starts the run.
C30_RunReachableThroughUI ==
    (image # NullName /\ samPoints # <<>> /\ CanvasReachable) =>
        \E tool \in ToolPanelIds \cup SegmentationPanelIds : RunStarts(tool)

====
